---- MODULE Spec2Model ----
(***************************************************************************)
(* TNega GO Search: the chat service (src/app.py) and the one-time         *)
(* ingestion script (src/upload_files.py), as state machines.              *)
(*                                                                         *)
(* Python values are modelled as follows.                                  *)
(*   - None / a missing attribute / a value: the tagged records None,      *)
(*     Missing and Some(v).                                                *)
(*   - a str that is displayed or stored: a sequence of tokens, so that    *)
(*     string concatenation is sequence concatenation (\o).                *)
(*   - a file name: the sequence of its character codes, so that sorted(), *)
(*     lower() and endswith() are computed, not assumed.                   *)
(***************************************************************************)
EXTENDS Integers, Sequences, FiniteSets, TLC

VARIABLES
    \* ---- environment shared by the two programs
    env_api_key,     \* os.environ.get("GEMINI_API_KEY")
    config_file,     \* store_config.json: None (no file) or Some(record)
    \* ---- chat service (src/app.py), one session
    chat_started,    \* whether the framework has run on_chat_start
    user_session,    \* cl.user_session: client, store_name, history
    ui,              \* contents of the cl.Message objects sent, in order
    step_output,     \* output of the last "Searching..." step
    requests,        \* generate_content calls issued, in order
    full,            \* history variable: every turn ever appended
    last_event,      \* history variable: what the last handler run did
    \* ---- ingestion script (src/upload_files.py), one run
    pc,              \* position of main()
    listing,         \* os.listdir(TNEGA_DIR), in the order the OS gives
    store_name,      \* store.name of the created store, None before
    pdf_files,       \* sorted PDF names
    attempts,        \* upload submissions made, in order
    operations,      \* (pdf_filename, operation) pairs to poll
    cur,             \* index in operations of the one being polled
    operation,       \* the loop variable `operation`
    retries,         \* the loop variable `retries`
    completed,       \* succeeded count
    failed,          \* failed count
    poll_log,        \* history variable: per operation, its poll results
    verdicts,        \* history variable: per operation, how it was counted
    config_writes,   \* history variable: number of writes of the config file
    config_file0,    \* history variable: the config file before the run
    spreadsheet,     \* GO_metadata.xlsx: None (no file) or Some(rows)
    metadata_by_file,\* the dict load_metadata returned
    \* ---- a single call of a pure function
    fn_input,        \* the argument
    fn_output        \* the result, None before the call

chat_vars == <<chat_started, user_session, ui, step_output, requests, full, last_event>>

ingest_vars == <<pc, listing, store_name, pdf_files, attempts, operations, cur,
                 operation, retries, completed, failed, poll_log, verdicts,
                 config_writes, config_file0, spreadsheet, metadata_by_file>>

call_vars == <<fn_input, fn_output>>

vars == <<env_api_key, config_file, chat_vars, ingest_vars, call_vars>>

----------------------------------------------------------------------------
(* Python values *)

None == [tag |-> "None"]

Missing == [tag |-> "Missing"]

Some(v) == [tag |-> "Some", val |-> v]

IsSome(x) == x.tag = "Some"

\* Python truthiness of an optional str: None and "" are falsy.
TruthyStr(x) == IsSome(x) /\ x.val # ""

\* Python truthiness of an optional list (or token text): None and [] are falsy.
TruthySeq(x) == IsSome(x) /\ x.val # <<>>

Last(s) == s[Len(s)]

\* s[-n:]
LastN(s, n) == IF Len(s) <= n THEN s ELSE SubSeq(s, Len(s) - n + 1, Len(s))

----------------------------------------------------------------------------
(* src/app.py *)

STORE_CONFIG_FILE == "store_config.json"

SYSTEM_PROMPT == <<"You are a Tamil Nadu Government Orders (GO) search assistant ...">>

ACK_TEXT == <<"Understood. I'm ready to help with Tamil Nadu Government Orders.">>

WELCOME == <<"Welcome to **TNe-GA GO Search**! ...">>

NO_KEY_MESSAGE == <<"GEMINI_API_KEY environment variable is not set.">>

NOT_INITIALIZED == <<"Session not initialized. Please refresh the page.">>

NO_ANSWER == <<"I couldn't find a relevant answer.">>

\* The cap of the stored transcript (turns).
HistoryCap == 20

Content(role, text) == [role |-> role, text |-> text]

\* The result of a call: a returned value or a raised exception.
Return(v) == [raised |-> FALSE, value |-> v, error |-> ""]

Raise(e) == [raised |-> TRUE, value |-> <<>>, error |-> e]

\* load_store_config: FileNotFoundError when the file is absent.
load_store_config(file) ==
    IF ~IsSome(file)
    THEN Raise("store_config.json not found. Run upload_files.py first to create the store.")
    ELSE Return(file.val.store_name)

\* The attribute read `obj.attr`: AttributeError when the attribute is missing.
AttributeError(attr) == attr.tag = "Missing"

SOURCES_HEADER == "\n\n---\n**Sources:**\n"

UNKNOWN_SOURCE == "Unknown source"

NOT_SUBSCRIPTABLE == "'NoneType' object is not subscriptable"

\* Faulty variant: a title is appended without looking for it in the list.
RECURSIVE CollectTitles_NoDedup(_, _, _)
CollectTitles_NoDedup(chunks, i, citations) ==
    IF i > Len(chunks) THEN citations
    ELSE LET ctx == chunks[i].retrieved_context IN
         IF AttributeError(ctx) THEN citations
         ELSE IF ~IsSome(ctx) THEN CollectTitles_NoDedup(chunks, i + 1, citations)
         ELSE IF AttributeError(ctx.val.title) THEN citations
         ELSE LET title == IF TruthyStr(ctx.val.title) THEN ctx.val.title.val
                           ELSE UNKNOWN_SOURCE
              IN  CollectTitles_NoDedup(chunks, i + 1, Append(citations, title))

\* The loop of format_citations over grounding_chunks[i..], with the citations
\* collected so far. An AttributeError ends the loop; the except clause passes
\* and the citations already collected stay in the list.
RECURSIVE CollectTitles(_, _, _)
CollectTitles(chunks, i, citations) ==
    IF i > Len(chunks) THEN citations
    ELSE LET ctx == chunks[i].retrieved_context IN
         IF AttributeError(ctx) THEN citations
         ELSE IF ~IsSome(ctx) THEN CollectTitles(chunks, i + 1, citations)
         ELSE IF AttributeError(ctx.val.title) THEN citations
         ELSE LET title == IF TruthyStr(ctx.val.title) THEN ctx.val.title.val
                           ELSE UNKNOWN_SOURCE
              IN  IF \E k \in 1..Len(citations) : citations[k] = title
                  THEN CollectTitles(chunks, i + 1, citations)
                  ELSE CollectTitles(chunks, i + 1, Append(citations, title))

\* The try block of format_citations: the list `citations` it leaves, or the
\* exception that escapes it (subscripting None is a TypeError, which the
\* except clause does not name).
Citations(response) ==
    LET cands == response.candidates IN
    IF AttributeError(cands) THEN Return(<<>>)
    ELSE IF ~IsSome(cands) THEN Raise(NOT_SUBSCRIPTABLE)
    ELSE IF cands.val = <<>> THEN Return(<<>>)
    ELSE LET grounding == cands.val[1].grounding_metadata IN
         IF AttributeError(grounding) THEN Return(<<>>)
         ELSE IF ~IsSome(grounding) THEN Return(<<>>)
         ELSE LET chunks == grounding.val.grounding_chunks IN
              IF AttributeError(chunks) THEN Return(<<>>)
              ELSE IF ~TruthySeq(chunks) THEN Return(<<>>)
              ELSE Return(CollectTitles(chunks.val, 1, <<>>))

\* "\n".join(f"- {c}" for c in citations[i..])
RECURSIVE JoinSources(_, _)
JoinSources(citations, i) ==
    IF i > Len(citations) THEN <<>>
    ELSE (IF i > 1 THEN <<"\n">> ELSE <<>>) \o <<"- ", citations[i]>>
         \o JoinSources(citations, i + 1)

format_citations(response) ==
    LET c == Citations(response) IN
    IF c.raised THEN c
    ELSE IF c.value # <<>>
         THEN Return(<<SOURCES_HEADER>> \o JoinSources(c.value, 1))
         ELSE Return(<<>>)

\* Faulty variant: the new message is placed before the stored turns.
BuildContents_MessageBeforeHistory(history, content) ==
    <<Content("user", SYSTEM_PROMPT), Content("model", ACK_TEXT)>>
        \o <<Content("user", content)>> \o history

\* contents, as on_message builds it (lines 113-120).
BuildContents(history, content) ==
    <<Content("user", SYSTEM_PROMPT), Content("model", ACK_TEXT)>>
        \o history \o <<Content("user", content)>>

\* Faulty variant: a failed request is answered like an empty one.
ComposeResponse_HidesError(outcome) ==
    IF outcome.raised
    THEN [full_response |-> NO_ANSWER,
          step_output |-> <<"Search complete.">>,
          errored |-> FALSE]
    ELSE LET response == outcome.value
             answer == IF TruthySeq(response.text) THEN response.text.val
                       ELSE NO_ANSWER
             citations == format_citations(response)
         IN  IF citations.raised
             THEN [full_response |-> <<"An error occurred: ", citations.error>>,
                   step_output |-> <<"Search failed: ", citations.error>>,
                   errored |-> TRUE]
             ELSE [full_response |-> answer \o citations.value,
                   step_output |-> <<"Search complete.">>,
                   errored |-> FALSE]

\* The body of the try block after generate_content has answered or raised
\* (lines 126-148): full_response and the step's output. `outcome` is what
\* generate_content did; an exception of format_citations is caught by the
\* same handler.
ComposeResponse(outcome) ==
    IF outcome.raised
    THEN [full_response |-> <<"An error occurred: ", outcome.error>>,
          step_output |-> <<"Search failed: ", outcome.error>>,
          errored |-> TRUE]
    ELSE LET response == outcome.value
             answer == IF TruthySeq(response.text) THEN response.text.val
                       ELSE NO_ANSWER
             citations == format_citations(response)
         IN  IF citations.raised
             THEN [full_response |-> <<"An error occurred: ", citations.error>>,
                   step_output |-> <<"Search failed: ", citations.error>>,
                   errored |-> TRUE]
             ELSE [full_response |-> answer \o citations.value,
                   step_output |-> <<"Search complete.">>,
                   errored |-> FALSE]

\* Faulty variant: the answer is appended before the message.
UpdateHistory_AnswerFirst(history, content, full_response) ==
    LET appended == history \o <<Content("model", full_response),
                                 Content("user", content)>>
    IN  IF Len(appended) > HistoryCap THEN LastN(appended, HistoryCap)
        ELSE appended

\* Faulty variant: the cap keeps the oldest turns (history[:20]).
UpdateHistory_KeepsOldest(history, content, full_response) ==
    LET appended == history \o <<Content("user", content),
                                 Content("model", full_response)>>
    IN  IF Len(appended) > HistoryCap THEN SubSeq(appended, 1, HistoryCap)
        ELSE appended

\* Faulty variant: the cap is off by one (`if len(history) >= 20: history[-19:]`).
UpdateHistory_CapOffByOne(history, content, full_response) ==
    LET appended == history \o <<Content("user", content),
                                 Content("model", full_response)>>
    IN  IF Len(appended) >= HistoryCap THEN LastN(appended, HistoryCap - 1)
        ELSE appended

\* Lines 153-156: append the two turns, keep the last HistoryCap.
UpdateHistory(history, content, full_response) ==
    LET appended == history \o <<Content("user", content),
                                 Content("model", full_response)>>
    IN  IF Len(appended) > HistoryCap THEN LastN(appended, HistoryCap)
        ELSE appended

\* Line 108: the guard of on_message.
SessionInitialized(session) ==
    IsSome(session.client) /\ TruthyStr(session.store_name)

Event(handler, content, result, detail) ==
    [handler |-> handler, content |-> content, result |-> result,
     detail |-> detail]

\* Faulty variant: the client is created and stored before the configuration is loaded.
on_chat_start_ClientFirst ==
    /\ ~chat_started
    /\ chat_started' = TRUE
    /\ IF ~TruthyStr(env_api_key)
       THEN /\ ui' = Append(ui, NO_KEY_MESSAGE)
            /\ last_event' = Event("on_chat_start", <<>>, "no_key", "")
            /\ UNCHANGED user_session
       ELSE LET loaded == load_store_config(config_file) IN
            IF loaded.raised
            THEN /\ ui' = Append(ui, <<loaded.error>>)
                 /\ last_event' = Event("on_chat_start", <<>>, "no_config", "")
                 /\ user_session' = [user_session EXCEPT
                        !.client = Some([api_key |-> env_api_key.val])]
            ELSE /\ user_session' =
                        [client |-> Some([api_key |-> env_api_key.val]),
                         store_name |-> Some(loaded.value),
                         history |-> Some(<<>>)]
                 /\ ui' = Append(ui, WELCOME)
                 /\ last_event' = Event("on_chat_start", <<>>, "ready", "")
    /\ UNCHANGED <<step_output, requests, full>>
    /\ UNCHANGED <<env_api_key, config_file, ingest_vars, call_vars>>

\* on_chat_start (lines 67-99).
on_chat_start ==
    /\ ~chat_started
    /\ chat_started' = TRUE
    /\ IF ~TruthyStr(env_api_key)
       THEN /\ ui' = Append(ui, NO_KEY_MESSAGE)
            /\ last_event' = Event("on_chat_start", <<>>, "no_key", "")
            /\ UNCHANGED user_session
       ELSE LET loaded == load_store_config(config_file) IN
            IF loaded.raised
            THEN /\ ui' = Append(ui, <<loaded.error>>)
                 /\ last_event' = Event("on_chat_start", <<>>, "no_config", "")
                 /\ UNCHANGED user_session
            ELSE /\ user_session' =
                        [client |-> Some([api_key |-> env_api_key.val]),
                         store_name |-> Some(loaded.value),
                         history |-> Some(<<>>)]
                 /\ ui' = Append(ui, WELCOME)
                 /\ last_event' = Event("on_chat_start", <<>>, "ready", "")
    /\ UNCHANGED <<step_output, requests, full>>
    /\ UNCHANGED <<env_api_key, config_file, ingest_vars, call_vars>>

\* on_message (lines 102-157). `content` is message.content and `outcome` is
\* what the generate_content call does when it is issued.
on_message(content, outcome) ==
    /\ chat_started
    /\ IF ~SessionInitialized(user_session)
       THEN /\ ui' = Append(ui, NOT_INITIALIZED)
            /\ last_event' = Event("on_message", content, "rejected", "")
            /\ UNCHANGED <<user_session, step_output, requests, full>>
       ELSE LET history == IF IsSome(user_session.history)
                           THEN user_session.history.val ELSE <<>>
                contents == BuildContents(history, content)
                composed == ComposeResponse(outcome)
            IN  /\ requests' = Append(requests,
                        [contents |-> contents,
                         file_search_store_names |-> <<user_session.store_name.val>>])
                /\ step_output' = composed.step_output
                /\ ui' = Append(ui, composed.full_response)
                /\ user_session' = [user_session EXCEPT !.history =
                        Some(UpdateHistory(history, content, composed.full_response))]
                /\ full' = full \o <<Content("user", content),
                                     Content("model", composed.full_response)>>
                /\ last_event' = Event("on_message", content,
                        IF outcome.raised THEN "request_raised"
                        ELSE IF composed.errored THEN "citations_raised"
                        ELSE "answered",
                        IF outcome.raised THEN outcome.error ELSE "")
    /\ UNCHANGED <<chat_started, env_api_key, config_file, ingest_vars, call_vars>>

----------------------------------------------------------------------------
(* src/upload_files.py *)

STORE_DISPLAY_NAME == "TNega-GOs"

\* Retries tolerated by the poll loop (`if retries > 5`).
MaxRetries == 5

\* str.lower() on one character code.
LowerChar(c) == IF c >= 65 /\ c <= 90 THEN c + 32 ELSE c

Lower(name) == [k \in 1..Len(name) |-> LowerChar(name[k])]

EndsWith(name, suffix) ==
    /\ Len(name) >= Len(suffix)
    /\ SubSeq(name, Len(name) - Len(suffix) + 1, Len(name)) = suffix

\* ".pdf"
DOT_PDF == <<46, 112, 100, 102>>

\* The filter of line 94: f.lower().endswith(".pdf").
IsPdfName(name) == EndsWith(Lower(name), DOT_PDF)

\* Python's str order: by code point, a proper prefix first.
RECURSIVE StrLess(_, _)
StrLess(a, b) ==
    IF a = <<>> THEN b # <<>>
    ELSE IF b = <<>> THEN FALSE
    ELSE IF a[1] # b[1] THEN a[1] < b[1]
    ELSE StrLess(Tail(a), Tail(b))

SelectPdfs(names) == SelectSeq(names, IsPdfName)

\* Insertion of one name into a sorted sequence.
RECURSIVE Insert(_, _)
Insert(name, sorted) ==
    IF sorted = <<>> THEN <<name>>
    ELSE IF StrLess(name, sorted[1]) THEN <<name>> \o sorted
    ELSE <<sorted[1]>> \o Insert(name, Tail(sorted))

RECURSIVE SortNames(_)
SortNames(names) ==
    IF names = <<>> THEN <<>>
    ELSE Insert(names[1], SortNames(Tail(names)))

\* Line 94: sorted(f for f in os.listdir(TNEGA_DIR) if f.lower().endswith(".pdf")).
SortedPdfs(names) == SortNames(SelectPdfs(names))

\* An operation handle, as the loop reads it: operation.done, operation.error.
\* The service sets error only on a finished operation.
OperationStates == {"pending", "done", "done_error"}

OpDone(op) == op \in {"done", "done_error"}

OpError(op) == op = "done_error"

\* Polls of the current operation that raised / that returned it unfinished.
RECURSIVE CountOf(_, _)
CountOf(log, what) ==
    IF log = <<>> THEN 0
    ELSE (IF log[1] = what THEN 1 ELSE 0) + CountOf(Tail(log), what)

----------------------------------------------------------------------------
(* src/upload_files.py: metadata.  A str is the sequence of its code points.  *)
(* A spreadsheet cell is None (empty), or Some of a str, an int or a float    *)
(* (held in tenths).  A dict is a function; {} is the empty function.         *)

StrCell(str) == Some([kind |-> "str", str |-> str])

IntCell(n) == Some([kind |-> "int", n |-> n])

FloatCell(tenths) == Some([kind |-> "float", tenths |-> tenths])

\* dict.get(key): None when the key is absent.
Get(dict, key) == IF key \in DOMAIN dict THEN dict[key] ELSE None

\* Python truthiness of a cell: None, "", 0 and 0.0 are falsy.
TruthyCell(cell) ==
    /\ IsSome(cell)
    /\ cell.val.kind = "str" => cell.val.str # <<>>
    /\ cell.val.kind = "int" => cell.val.n # 0
    /\ cell.val.kind = "float" => cell.val.tenths # 0

\* The decimal digits of a natural number, as code points.
RECURSIVE Digits(_)
Digits(n) ==
    IF n < 10 THEN <<48 + n>>
    ELSE Append(Digits(n \div 10), 48 + (n % 10))

\* str(value) of a non-empty cell.
PyStr(value) ==
    IF value.kind = "str" THEN value.str
    ELSE IF value.kind = "int" THEN Digits(value.n)
    ELSE Digits(value.tenths \div 10) \o <<46>> \o Digits(value.tenths % 10)

\* int(value) of a numeric cell: a float is truncated.
PyInt(value) ==
    IF value.kind = "int" THEN value.n ELSE value.tenths \div 10

\* The byte limit of the abstract.
AbstractLimit == 256

\* The UTF-8 bytes of one code point.
Utf8(c) ==
    IF c < 128 THEN <<c>>
    ELSE IF c < 2048 THEN <<192 + (c \div 64), 128 + (c % 64)>>
    ELSE IF c < 65536
         THEN <<224 + (c \div 4096), 128 + ((c \div 64) % 64), 128 + (c % 64)>>
    ELSE <<240 + (c \div 262144), 128 + ((c \div 4096) % 64),
           128 + ((c \div 64) % 64), 128 + (c % 64)>>

\* str.encode("utf-8") of str[lo..hi]: the bytes of each character, in order
\* (halved, to keep the evaluation shallow).
RECURSIVE EncodeRange(_, _, _)
EncodeRange(str, lo, hi) ==
    IF lo > hi THEN <<>>
    ELSE IF lo = hi THEN Utf8(str[lo])
    ELSE LET mid == (lo + hi) \div 2
         IN  EncodeRange(str, lo, mid) \o EncodeRange(str, mid + 1, hi)

Encode(str) == EncodeRange(str, 1, Len(str))

IsContinuation(b) == b >= 128 /\ b < 192

\* The length of the sequence a lead byte announces (0: not a lead byte).
SequenceLength(b) ==
    IF b < 128 THEN 1
    ELSE IF b >= 192 /\ b < 224 THEN 2
    ELSE IF b >= 224 /\ b < 240 THEN 3
    ELSE IF b >= 240 /\ b < 248 THEN 4
    ELSE 0

\* The code point of the complete sequence of n bytes at position i.
CodePoint(bytes, i, n) ==
    IF n = 1 THEN bytes[i]
    ELSE IF n = 2 THEN (bytes[i] - 192) * 64 + (bytes[i + 1] - 128)
    ELSE IF n = 3 THEN (bytes[i] - 224) * 4096 + (bytes[i + 1] - 128) * 64
                        + (bytes[i + 2] - 128)
    ELSE (bytes[i] - 240) * 262144 + (bytes[i + 1] - 128) * 4096
         + (bytes[i + 2] - 128) * 64 + (bytes[i + 3] - 128)

\* What the byte at position i contributes to the decoded str: its character
\* when it is a lead byte followed by all its continuation bytes, nothing
\* otherwise (errors="ignore" drops it).
DecodeAt(bytes, i) ==
    LET n == SequenceLength(bytes[i]) IN
    IF /\ n > 0
       /\ i + n - 1 <= Len(bytes)
       /\ \A k \in (i + 1)..(i + n - 1) : IsContinuation(bytes[k])
    THEN <<CodePoint(bytes, i, n)>>
    ELSE <<>>

\* bytes.decode("utf-8", errors="ignore") of the characters that start in
\* bytes[lo..hi]. A lead byte is never a continuation byte, so what a position
\* contributes does not depend on the positions before it (halved as above).
RECURSIVE DecodeRange(_, _, _)
DecodeRange(bytes, lo, hi) ==
    IF lo > hi THEN <<>>
    ELSE IF lo = hi THEN DecodeAt(bytes, lo)
    ELSE LET mid == (lo + hi) \div 2
         IN  DecodeRange(bytes, lo, mid) \o DecodeRange(bytes, mid + 1, hi)

DecodeIgnore(bytes) == DecodeRange(bytes, 1, Len(bytes))

\* str.isspace() of one code point.
IsSpace(c) ==
    \/ c \in 9..13
    \/ c \in 28..32
    \/ c \in {133, 160, 5760, 8232, 8233, 8239, 8287, 12288}
    \/ c \in 8192..8202

\* str.rstrip()
RECURSIVE RStrip(_)
RStrip(str) ==
    IF str = <<>> THEN <<>>
    ELSE IF IsSpace(str[Len(str)]) THEN RStrip(SubSeq(str, 1, Len(str) - 1))
    ELSE str

\* bytes[:n]
FirstN(seq, n) == IF Len(seq) <= n THEN seq ELSE SubSeq(seq, 1, n)

\* Faulty variant: the abstract is cut by characters, before it is encoded.
TruncateAbstract_ByCharacters(abstract) ==
    RStrip(DecodeIgnore(Encode(FirstN(abstract, AbstractLimit))))

\* Lines 62-63: cut the encoded abstract, decode what is whole, strip.
TruncateAbstract(abstract) ==
    RStrip(DecodeIgnore(FirstN(Encode(abstract), AbstractLimit)))

\* Lines 50-51.
YearEntry(record) ==
    IF IsSome(Get(record, "Year"))
    THEN <<[key |-> "year", numeric_value |-> PyInt(record["Year"].val)]>>
    ELSE <<>>

\* Lines 53-57 and 66-67: a string entry, when the field is truthy.
StringEntry(record, field, key) ==
    IF TruthyCell(Get(record, field))
    THEN <<[key |-> key, string_value |-> PyStr(record[field].val)]>>
    ELSE <<>>

\* Lines 59-64.
AbstractEntry(record) ==
    IF TruthyCell(Get(record, "Abstract"))
    THEN <<[key |-> "abstract",
            string_value |-> TruncateAbstract(PyStr(record["Abstract"].val))]>>
    ELSE <<>>

\* Faulty variant: the date is emitted before the abstract.
build_custom_metadata_DateFirst(record) ==
    YearEntry(record)
        \o StringEntry(record, "GO Number", "go_number")
        \o StringEntry(record, "Department", "department")
        \o StringEntry(record, "Date", "date")
        \o AbstractEntry(record)

\* build_custom_metadata (lines 46-69).
build_custom_metadata(record) ==
    YearEntry(record)
        \o StringEntry(record, "GO Number", "go_number")
        \o StringEntry(record, "Department", "department")
        \o AbstractEntry(record)
        \o StringEntry(record, "Date", "date")

\* dict(zip(headers, row)) (line 38): pairs up to the shorter of the two.
ZipDict(headers, row) ==
    LET n == IF Len(headers) < Len(row) THEN Len(headers) ELSE Len(row) IN
    [h \in {headers[k] : k \in 1..n} |->
        row[CHOOSE k \in 1..n :
                headers[k] = h /\ \A j \in (k + 1)..n : headers[j] # h]]

\* The loop of load_metadata (lines 37-40) from row i on: a later row with the
\* same Filename replaces the earlier one.
RECURSIVE LoadRows(_, _, _, _)
LoadRows(headers, rows, i, dict) ==
    IF i > Len(rows) THEN dict
    ELSE LET record == ZipDict(headers, rows[i])
             filename == record["Filename"]
         IN  LoadRows(headers, rows, i + 1,
                [k \in DOMAIN dict \cup {filename} |->
                    IF k = filename THEN record ELSE dict[k]])

\* load_metadata (lines 29-43) on a workbook that could be opened.
load_metadata(sheet) == LoadRows(sheet.headers, sheet.rows, 1, <<>>)

\* Polls that may return an unfinished operation, per operation.
MaxPendingPolls == 2

\* Faulty variant: only an unset variable is refused (`if api_key is None`).
CheckKey_OnlyNone ==
    /\ pc = "start"
    /\ pc' = IF ~IsSome(env_api_key) THEN "exit" ELSE "load"
    /\ UNCHANGED <<listing, store_name, pdf_files, attempts, operations, cur,
                   operation, retries, completed, failed, poll_log, verdicts,
                   config_writes, config_file0>>
    /\ UNCHANGED <<env_api_key, config_file, chat_vars, call_vars, spreadsheet,
                   metadata_by_file>>

\* Lines 73-78: the credential check and the client.
CheckKey ==
    /\ pc = "start"
    /\ pc' = IF ~TruthyStr(env_api_key) THEN "exit" ELSE "load"
    /\ UNCHANGED <<listing, store_name, pdf_files, attempts, operations, cur,
                   operation, retries, completed, failed, poll_log, verdicts,
                   config_writes, config_file0>>
    /\ UNCHANGED <<env_api_key, config_file, chat_vars, call_vars, spreadsheet,
                   metadata_by_file>>

\* Lines 81-83: load_metadata; the script dies when it raises (the workbook
\* cannot be opened, or a row has no Filename column).
LoadMetadata ==
    /\ pc = "load"
    /\ IF /\ IsSome(spreadsheet)
          /\ \/ spreadsheet.val.rows = <<>>
             \/ \E k \in 1..Len(spreadsheet.val.headers) :
                    spreadsheet.val.headers[k] = "Filename"
       THEN /\ metadata_by_file' = load_metadata(spreadsheet.val)
            /\ pc' = "create"
       ELSE /\ pc' = "crashed"
            /\ UNCHANGED metadata_by_file
    /\ UNCHANGED <<listing, store_name, pdf_files, attempts, operations, cur,
                   operation, retries, completed, failed, poll_log, verdicts,
                   config_writes, config_file0>>
    /\ UNCHANGED <<env_api_key, config_file, chat_vars, call_vars, spreadsheet>>

\* Identifiers the service may give a new store.
StoreNames == {"fileSearchStores/new1", "fileSearchStores/new2"}

\* Faulty variant: the configuration is saved as soon as the store exists.
CreateStore_SavesEarly ==
    /\ pc = "create"
    /\ \/ /\ pc' = "crashed"
          /\ UNCHANGED <<store_name, config_file, config_writes>>
       \/ \E name \in StoreNames :
            /\ store_name' = Some(name)
            /\ config_file' = Some([store_name |-> name,
                                    display_name |-> STORE_DISPLAY_NAME])
            /\ config_writes' = config_writes + 1
            /\ pc' = "list"
    /\ UNCHANGED <<listing, pdf_files, attempts, operations, cur,
                   operation, retries, completed, failed, poll_log, verdicts,
                   config_file0>>
    /\ UNCHANGED <<env_api_key, chat_vars, call_vars, spreadsheet, metadata_by_file>>

\* Lines 86-91: create the store; the script dies when the call raises.
CreateStore ==
    /\ pc = "create"
    /\ \/ /\ pc' = "crashed"
          /\ UNCHANGED store_name
       \/ \E name \in StoreNames :
            /\ store_name' = Some(name)
            /\ pc' = "list"
    /\ UNCHANGED <<listing, pdf_files, attempts, operations, cur,
                   operation, retries, completed, failed, poll_log, verdicts,
                   config_writes, config_file0>>
    /\ UNCHANGED <<env_api_key, config_file, chat_vars, call_vars, spreadsheet,
                   metadata_by_file>>

\* Lines 94-98: the sorted list of PDFs, and the empty list of operations.
\* os.listdir raises when the directory cannot be read, and the script dies.
ListPdfs ==
    /\ pc = "list"
    /\ \/ /\ pdf_files' = SortedPdfs(listing)
          /\ pc' = "submit"
       \/ /\ pc' = "crashed"
          /\ UNCHANGED pdf_files
    /\ operations' = <<>>
    /\ UNCHANGED <<listing, store_name, attempts, cur,
                   operation, retries, completed, failed, poll_log, verdicts,
                   config_writes, config_file0>>
    /\ UNCHANGED <<env_api_key, config_file, chat_vars, call_vars, spreadsheet,
                   metadata_by_file>>

\* Faulty variant: the custom_metadata key is always set, even to [].
UploadConfig_AlwaysMetadata(pdf_filename, metadata) ==
    LET record == IF StrCell(pdf_filename) \in DOMAIN metadata
                  THEN metadata[StrCell(pdf_filename)] ELSE <<>>
        custom_metadata == IF DOMAIN record # {}
                           THEN build_custom_metadata(record) ELSE <<>>
    IN  [k \in {"display_name", "custom_metadata"} |->
            IF k = "display_name" THEN Some(pdf_filename)
            ELSE Some(custom_metadata)]

\* Lines 101-106: upload_config, a dict with display_name and, when the
\* metadata list is not empty, custom_metadata.
UploadConfig(pdf_filename, metadata) ==
    LET record == IF StrCell(pdf_filename) \in DOMAIN metadata
                  THEN metadata[StrCell(pdf_filename)] ELSE <<>>
        custom_metadata == IF DOMAIN record # {}
                           THEN build_custom_metadata(record) ELSE <<>>
    IN  IF custom_metadata # <<>>
        THEN [k \in {"display_name", "custom_metadata"} |->
                IF k = "display_name" THEN Some(pdf_filename)
                ELSE Some(custom_metadata)]
        ELSE [k \in {"display_name"} |-> Some(pdf_filename)]

\* One call of upload_to_file_search_store, as the service sees it.
Attempt(pdf_filename, raised) ==
    [file |-> pdf_filename, display_name |-> pdf_filename,
     store |-> store_name.val, raised |-> raised,
     config |-> UploadConfig(pdf_filename, metadata_by_file)]

\* Faulty variant: a submission that raises ends the upload loop.
Submit_StopsOnRaise ==
    /\ pc = "submit"
    /\ Len(attempts) < Len(pdf_files)
    /\ LET pdf_filename == pdf_files[Len(attempts) + 1] IN
       \/ /\ attempts' = Append(attempts, Attempt(pdf_filename, TRUE))
          /\ pc' = "polling"
          /\ UNCHANGED operations
       \/ \E op \in OperationStates :
            /\ attempts' = Append(attempts, Attempt(pdf_filename, FALSE))
            /\ operations' = Append(operations,
                [file |-> pdf_filename, operation |-> op])
            /\ pc' = "submit"
    /\ UNCHANGED <<listing, store_name, pdf_files, cur,
                   operation, retries, completed, failed, poll_log, verdicts,
                   config_writes, config_file0>>
    /\ UNCHANGED <<env_api_key, config_file, chat_vars, call_vars, spreadsheet,
                   metadata_by_file>>

\* Lines 99-119: one iteration of the upload loop. The call either raises
\* (caught, printed) or returns an operation, which may already be finished.
Submit ==
    /\ pc = "submit"
    /\ Len(attempts) < Len(pdf_files)
    /\ LET pdf_filename == pdf_files[Len(attempts) + 1] IN
       \/ /\ attempts' = Append(attempts, Attempt(pdf_filename, TRUE))
          /\ UNCHANGED operations
       \/ \E op \in OperationStates :
            /\ attempts' = Append(attempts, Attempt(pdf_filename, FALSE))
            /\ operations' = Append(operations,
                [file |-> pdf_filename, operation |-> op])
    /\ UNCHANGED <<pc, listing, store_name, pdf_files, cur,
                   operation, retries, completed, failed, poll_log, verdicts,
                   config_writes, config_file0>>
    /\ UNCHANGED <<env_api_key, config_file, chat_vars, call_vars, spreadsheet,
                   metadata_by_file>>

\* Lines 121-124: the upload loop is over; the counts start at zero.
BeginPolling ==
    /\ pc = "submit"
    /\ Len(attempts) = Len(pdf_files)
    /\ completed' = 0
    /\ failed' = 0
    /\ pc' = "polling"
    /\ UNCHANGED <<listing, store_name, pdf_files, attempts, operations, cur,
                   operation, retries, poll_log, verdicts,
                   config_writes, config_file0>>
    /\ UNCHANGED <<env_api_key, config_file, chat_vars, call_vars, spreadsheet,
                   metadata_by_file>>

\* Faulty variant: retries is set to zero once, before the for loop.
NextOperation_KeepsRetries ==
    /\ pc = "polling"
    /\ cur < Len(operations)
    /\ cur' = cur + 1
    /\ operation' = operations[cur + 1].operation
    /\ poll_log' = <<>>
    /\ pc' = "wait"
    /\ UNCHANGED <<listing, store_name, pdf_files, attempts, operations, retries,
                   completed, failed, verdicts, config_writes, config_file0>>
    /\ UNCHANGED <<env_api_key, config_file, chat_vars, call_vars, spreadsheet,
                   metadata_by_file>>

\* Lines 126-127: the next (pdf_filename, operation) pair; retries = 0.
NextOperation ==
    /\ pc = "polling"
    /\ cur < Len(operations)
    /\ cur' = cur + 1
    /\ operation' = operations[cur + 1].operation
    /\ retries' = 0
    /\ poll_log' = <<>>
    /\ pc' = "wait"
    /\ UNCHANGED <<listing, store_name, pdf_files, attempts, operations,
                   completed, failed, verdicts, config_writes, config_file0>>
    /\ UNCHANGED <<env_api_key, config_file, chat_vars, call_vars, spreadsheet,
                   metadata_by_file>>

\* Faulty variant: the loop is left as soon as a poll succeeds, finished or not.
Poll_SinglePoll ==
    /\ pc = "wait"
    /\ ~OpDone(operation)
    /\ \/ \E op \in OperationStates :
            /\ op = "pending" => CountOf(poll_log, "pending") < MaxPendingPolls
            /\ operation' = op
            /\ poll_log' = Append(poll_log, IF op = "pending" THEN "pending"
                                            ELSE "finished")
            /\ pc' = "count"
            /\ UNCHANGED retries
       \/ /\ retries' = retries + 1
          /\ poll_log' = Append(poll_log, "raised")
          /\ pc' = IF retries + 1 > MaxRetries THEN "count" ELSE "wait"
          /\ UNCHANGED operation
    /\ UNCHANGED <<listing, store_name, pdf_files, attempts, operations, cur,
                   completed, failed, verdicts, config_writes, config_file0>>
    /\ UNCHANGED <<env_api_key, config_file, chat_vars, call_vars, spreadsheet,
                   metadata_by_file>>

\* Faulty variant: the loop gives up one failure earlier (`if retries >= 5`).
Poll_GivesUpEarlier ==
    /\ pc = "wait"
    /\ ~OpDone(operation)
    /\ \/ \E op \in OperationStates :
            /\ op = "pending" => CountOf(poll_log, "pending") < MaxPendingPolls
            /\ operation' = op
            /\ poll_log' = Append(poll_log, IF op = "pending" THEN "pending"
                                            ELSE "finished")
            /\ UNCHANGED <<retries, pc>>
       \/ /\ retries' = retries + 1
          /\ poll_log' = Append(poll_log, "raised")
          /\ pc' = IF retries + 1 >= MaxRetries THEN "count" ELSE "wait"
          /\ UNCHANGED operation
    /\ UNCHANGED <<listing, store_name, pdf_files, attempts, operations, cur,
                   completed, failed, verdicts, config_writes, config_file0>>
    /\ UNCHANGED <<env_api_key, config_file, chat_vars, call_vars, spreadsheet,
                   metadata_by_file>>

\* Lines 128-138: one iteration of `while not operation.done`: sleep, then
\* client.operations.get, which returns the operation's new state or raises.
Poll ==
    /\ pc = "wait"
    /\ ~OpDone(operation)
    /\ \/ \E op \in OperationStates :
            /\ op = "pending" => CountOf(poll_log, "pending") < MaxPendingPolls
            /\ operation' = op
            /\ poll_log' = Append(poll_log, IF op = "pending" THEN "pending"
                                            ELSE "finished")
            /\ UNCHANGED <<retries, pc>>
       \/ /\ retries' = retries + 1
          /\ poll_log' = Append(poll_log, "raised")
          /\ pc' = IF retries + 1 > MaxRetries THEN "count" ELSE "wait"
          /\ UNCHANGED operation
    /\ UNCHANGED <<listing, store_name, pdf_files, attempts, operations, cur,
                   completed, failed, verdicts, config_writes, config_file0>>
    /\ UNCHANGED <<env_api_key, config_file, chat_vars, call_vars, spreadsheet,
                   metadata_by_file>>

\* Line 128: the loop condition fails, the operation is finished.
Finished ==
    /\ pc = "wait"
    /\ OpDone(operation)
    /\ pc' = "count"
    /\ UNCHANGED <<listing, store_name, pdf_files, attempts, operations, cur,
                   operation, retries, completed, failed, poll_log, verdicts,
                   config_writes, config_file0>>
    /\ UNCHANGED <<env_api_key, config_file, chat_vars, call_vars, spreadsheet,
                   metadata_by_file>>

\* Faulty variant: an operation left unfinished is not counted at all.
Count_SkipsAbandoned ==
    /\ pc = "count"
    /\ IF ~OpDone(operation)
       THEN UNCHANGED <<failed, completed, verdicts>>
       ELSE IF OpError(operation)
       THEN /\ failed' = failed + 1
            /\ UNCHANGED completed
            /\ verdicts' = Append(verdicts,
                    [file |-> operations[cur].file, printed |-> "FAILED",
                     abandoned |-> FALSE,
                     raised |-> CountOf(poll_log, "raised")])
       ELSE /\ completed' = completed + 1
            /\ UNCHANGED failed
            /\ verdicts' = Append(verdicts,
                    [file |-> operations[cur].file, printed |-> "OK",
                     abandoned |-> FALSE,
                     raised |-> CountOf(poll_log, "raised")])
    /\ pc' = "polling"
    /\ UNCHANGED <<listing, store_name, pdf_files, attempts, operations, cur,
                   operation, retries, poll_log, config_writes, config_file0>>
    /\ UNCHANGED <<env_api_key, config_file, chat_vars, call_vars, spreadsheet,
                   metadata_by_file>>

\* Lines 140-145: count the operation as failed or completed and print it.
\* `abandoned` records that the loop was left by the break of line 136.
Count ==
    /\ pc = "count"
    /\ IF OpError(operation)
       THEN /\ failed' = failed + 1
            /\ UNCHANGED completed
            /\ verdicts' = Append(verdicts,
                    [file |-> operations[cur].file, printed |-> "FAILED",
                     abandoned |-> ~OpDone(operation),
                     raised |-> CountOf(poll_log, "raised")])
       ELSE /\ completed' = completed + 1
            /\ UNCHANGED failed
            /\ verdicts' = Append(verdicts,
                    [file |-> operations[cur].file, printed |-> "OK",
                     abandoned |-> ~OpDone(operation),
                     raised |-> CountOf(poll_log, "raised")])
    /\ pc' = "polling"
    /\ UNCHANGED <<listing, store_name, pdf_files, attempts, operations, cur,
                   operation, retries, poll_log, config_writes, config_file0>>
    /\ UNCHANGED <<env_api_key, config_file, chat_vars, call_vars, spreadsheet,
                   metadata_by_file>>

\* Lines 147-154: every operation was waited for; write store_config.json.
SaveConfig ==
    /\ pc = "polling"
    /\ cur = Len(operations)
    /\ config_file' = Some([store_name |-> store_name.val,
                            display_name |-> STORE_DISPLAY_NAME])
    /\ config_writes' = config_writes + 1
    /\ pc' = "done"
    /\ UNCHANGED <<listing, store_name, pdf_files, attempts, operations, cur,
                   operation, retries, completed, failed, poll_log, verdicts,
                   config_file0>>
    /\ UNCHANGED <<env_api_key, chat_vars, call_vars, spreadsheet, metadata_by_file>>

----------------------------------------------------------------------------
(* The environment and the inputs of the chat service *)

\* What os.environ.get("GEMINI_API_KEY") may give.
ApiKeys == {None, Some(""), Some("key")}

\* store_config.json before the program runs: absent, or left by an earlier
\* ingestion run.
ConfigFiles ==
    {None, Some([store_name |-> "fileSearchStores/old",
                 display_name |-> STORE_DISPLAY_NAME])}

Msgs == {<<"q1">>, <<"q2">>}

Errors == {"e1"}

Chunk(title) == [retrieved_context |-> Some([title |-> title])]

Grounded(chunks) ==
    Some(<<[grounding_metadata |-> Some([grounding_chunks |-> Some(chunks)])]>>)

\* Responses of generate_content used in the session runs: a cited answer (a
\* repeated title, an untitled chunk, a chunk without context), a plain answer,
\* an empty answer without candidates, and a blocked one (candidates is None).
ChatResponses ==
    { [text |-> Some(<<"a1">>),
       candidates |-> Grounded(<<Chunk(Some("t1")), [retrieved_context |-> None],
                                 Chunk(Some("t1")), Chunk(None)>>)],
      [text |-> Some(<<"a2">>),
       candidates |-> Some(<<[grounding_metadata |-> None]>>)],
      [text |-> None, candidates |-> Some(<<>>)],
      [text |-> None, candidates |-> None] }

\* Messages handled in one session run.
MaxMessages == 3

\* Messages handled in one long session run (past the transcript cap).
MaxLongMessages == 11

ChatIdle ==
    /\ chat_started = FALSE
    /\ user_session = [client |-> None, store_name |-> None, history |-> None]
    /\ ui = <<>>
    /\ step_output = <<>>
    /\ requests = <<>>
    /\ full = <<>>
    /\ last_event = Event("init", <<>>, "none", "")

IngestIdle ==
    /\ pc = "idle"
    /\ listing = <<>>
    /\ store_name = None
    /\ pdf_files = <<>>
    /\ attempts = <<>>
    /\ operations = <<>>
    /\ cur = 0
    /\ operation = "none"
    /\ retries = 0
    /\ completed = 0
    /\ failed = 0
    /\ poll_log = <<>>
    /\ verdicts = <<>>
    /\ config_writes = 0
    /\ config_file0 = config_file
    /\ spreadsheet = None
    /\ metadata_by_file = <<>>

\* No pure function is being called.
CallIdle ==
    /\ fn_input = None
    /\ fn_output = None

\* A new chat session: nothing stored, on_chat_start not yet run.
InitChat ==
    /\ env_api_key \in ApiKeys
    /\ config_file \in ConfigFiles
    /\ ChatIdle
    /\ IngestIdle
    /\ CallIdle

\* The number of messages the session has received.
Received == Len(ui) - 1

NextChat ==
    \/ on_chat_start
    \/ /\ Received < MaxMessages
       /\ \E content \in Msgs :
            \/ \E e \in Errors : on_message(content, Raise(e))
            \/ \E r \in ChatResponses : on_message(content, Return(r))

SpecChat == InitChat /\ [][NextChat]_vars

\* Long sessions: every message is either answered or fails.
NextTranscript ==
    \/ on_chat_start
    \/ /\ Received < MaxLongMessages
       /\ \/ on_message(<<"q1">>, Return([text |-> Some(<<"a1">>),
                                           candidates |-> Some(<<>>)]))
          \/ on_message(<<"q2">>, Raise("e1"))

SpecTranscript == InitChat /\ [][NextTranscript]_vars

----------------------------------------------------------------------------
(* Properties of the chat service *)

Min(a, b) == IF a < b THEN a ELSE b

\* The stored transcript ([] when the key is unset, as user_session.get gives).
Transcript ==
    IF IsSome(user_session.history) THEN user_session.history.val ELSE <<>>

\* A message was handled past the guard by this step.
Handled == Len(full') = Len(full) + 2

\* C1: in an initialized session the stored transcript has at most 20 turns and
\* is exactly the last min(20, 2n) turns, in order, of the turns produced by
\* the n messages handled so far.
C1_TranscriptIsTail ==
    SessionInitialized(user_session) =>
        LET n == Len(full) \div 2
            h == Transcript
        IN  /\ Len(full) = 2 * n
            /\ Len(h) <= 20
            /\ Len(h) = Min(20, 2 * n)
            /\ \A k \in 1..Len(h) : h[k] = full[Len(full) - Len(h) + k]

\* C1 witness: eleven messages handled, the two oldest turns dropped.
C1_Witness ==
    /\ SessionInitialized(user_session)
    /\ Len(full) = 22
    /\ Len(Transcript) = 20
    /\ Transcript[1] = full[3]

\* C2 as stated: from a transcript of 18 turns, handling one message leaves
\* exactly 19 turns.
C2_Original ==
    [][(Len(Transcript) = 18 /\ Handled) =>
            Len(user_session'.history.val) = 19]_vars

\* C2 amended: from a transcript of 18 turns, handling one message leaves
\* exactly 20 turns: the 18 stored ones followed by the new user turn and the
\* answer turn, nothing dropped.
C2_EighteenThenTwenty ==
    [][(Len(Transcript) = 18 /\ Handled) =>
            /\ Len(user_session'.history.val) = 20
            /\ user_session'.history.val =
                    Transcript \o <<full'[Len(full) + 1], full'[Len(full) + 2]>>
            /\ full'[Len(full) + 1].role = "user"
            /\ full'[Len(full) + 1].text = last_event'.content
            /\ full'[Len(full) + 2].role = "model"]_vars

\* C2 witness: the tenth message has just been handled.
C2_Witness ==
    /\ last_event.handler = "on_message"
    /\ Len(full) = 20
    /\ Len(Transcript) = 20

\* The credential or the configuration file is missing.
StartMissing == ~TruthyStr(env_api_key) \/ ~IsSome(config_file)

\* C9: after a session start with the credential or the configuration file
\* missing, the session holds no client, no store identifier and no
\* transcript, no generation request is ever issued, and every message yields
\* exactly the restart instruction and changes nothing else.
C9_FailedStartStoresNothing ==
    /\ []((chat_started /\ StartMissing) =>
            /\ user_session = [client |-> None, store_name |-> None,
                               history |-> None]
            /\ requests = <<>>
            /\ full = <<>>)
    /\ [][(chat_started /\ StartMissing) =>
            /\ ui' = Append(ui, NOT_INITIALIZED)
            /\ UNCHANGED <<user_session, requests, step_output, full>>]_vars

\* C9 witness: two messages were rejected after a failed start.
C9_Witness ==
    /\ chat_started
    /\ StartMissing
    /\ Len(ui) = 3
    /\ last_event.result = "rejected"

\* C10: when the generation request raises, the handler completes: the final
\* message is the fallback text with the error description, the transcript
\* ends with the user turn and a model turn holding that text, the client and
\* the store identifier are unchanged, and the next message is handled
\* normally (a request is issued for it).
C10_RequestErrorIsAnswered ==
    /\ [](last_event.result = "request_raised" =>
            LET fallback == <<"An error occurred: ", last_event.detail>>
                h == Transcript
            IN  /\ Last(ui) = fallback
                /\ Len(h) >= 2
                /\ h[Len(h) - 1] = Content("user", last_event.content)
                /\ h[Len(h)] = Content("model", fallback)
                /\ SessionInitialized(user_session))
    /\ [][chat_started =>
            /\ user_session'.client = user_session.client
            /\ user_session'.store_name = user_session.store_name]_vars
    /\ [][(last_event.result = "request_raised" /\ ui' # ui) =>
            /\ Handled
            /\ Len(requests') = Len(requests) + 1
            /\ last_event'.result # "rejected"]_vars

\* C10 witness: a request raised, and the message after it was answered.
C10_Witness ==
    /\ Len(full) = 4
    /\ full[2] = Content("model", <<"An error occurred: ", "e1">>)
    /\ last_event.result = "answered"
    /\ Len(requests) = 2

----------------------------------------------------------------------------
(* The environment of the ingestion script *)

\* Entries the source directory may hold: "a.pdf", "B.PDF", "c.txt".
DirEntries == { <<97, 46, 112, 100, 102>>,
                <<66, 46, 80, 68, 70>>,
                <<99, 46, 116, 120, 116>> }

\* os.listdir gives the entries of the directory in arbitrary order.
Listings ==
    { l \in UNION { [1..n -> DirEntries] : n \in 0..Cardinality(DirEntries) } :
        \A k1, k2 \in 1..Len(l) : k1 # k2 => l[k1] # l[k2] }

HEADERS == <<"Filename", "Year", "GO Number", "Department", "Abstract", "Date">>

\* "a.pdf", "B.PDF", "b.pdf"
A_PDF == <<97, 46, 112, 100, 102>>

UPPER_B_PDF == <<66, 46, 80, 68, 70>>

LOWER_B_PDF == <<98, 46, 112, 100, 102>>

\* A full row for a.pdf: 2021, "12", "IT", "ab ", "2021".
FullRow ==
    <<StrCell(A_PDF), IntCell(2021), StrCell(<<49, 50>>), StrCell(<<73, 84>>),
      StrCell(<<97, 98, 32>>), StrCell(<<50, 48, 50, 49>>)>>

\* A row for the file `name` with every other cell empty.
EmptyRow(name) == <<StrCell(name), None, None, None, None, None>>

\* A row for the file `name` with only a year (a float) and a numeric GO number.
YearRow(name) ==
    <<StrCell(name), FloatCell(20215), IntCell(7), None, None, None>>

\* The workbook of the full runs.
SheetOne == [headers |-> HEADERS, rows |-> <<FullRow, EmptyRow(UPPER_B_PDF)>>]

\* The environment of main(), but for the workbook.
InitMain ==
    /\ env_api_key \in ApiKeys
    /\ config_file \in ConfigFiles
    /\ ChatIdle
    /\ CallIdle
    /\ pc = "start"
    /\ listing \in Listings
    /\ store_name = None
    /\ pdf_files = <<>>
    /\ attempts = <<>>
    /\ operations = <<>>
    /\ cur = 0
    /\ operation = "none"
    /\ retries = 0
    /\ completed = 0
    /\ failed = 0
    /\ poll_log = <<>>
    /\ verdicts = <<>>
    /\ config_writes = 0
    /\ config_file0 = config_file
    /\ metadata_by_file = <<>>

\* The script is about to run main().
InitIngest ==
    /\ InitMain
    /\ spreadsheet \in {None, Some(SheetOne)}

NextIngest ==
    \/ CheckKey
    \/ LoadMetadata
    \/ CreateStore
    \/ ListPdfs
    \/ Submit
    \/ BeginPolling
    \/ NextOperation
    \/ Poll
    \/ Finished
    \/ Count
    \/ SaveConfig

SpecIngest == InitIngest /\ [][NextIngest]_vars

----------------------------------------------------------------------------
(* Properties of the ingestion script *)

\* The poll loop of the current operation was left by the break of line 136.
Abandoned == pc = "count" /\ ~OpDone(operation)

\* C3 as stated: an operation is abandoned only after an unbroken run of failed
\* polls; failed polls separated by a successful poll never add up to an
\* abandonment.
C3_OnlyConsecutiveErrorsCount ==
    Abandoned =>
        \A k1, k2 \in 1..Len(poll_log) :
            (k1 < k2 /\ poll_log[k1] = "raised" /\ poll_log[k2] = "raised") =>
                \A k \in k1..k2 : poll_log[k] = "raised"

\* C4 as stated: at most 5 polls of one operation fail.
C4_Original == CountOf(poll_log, "raised") <= 5

\* C4 amended: at most 6 polls of one operation fail; the operation is
\* abandoned exactly on its 6th poll failure, and is not polled after it (the
\* loop is only ever waiting with fewer than 6 failures, and the operations
\* are taken in order, never again).
C4_SixthFailureAbandons ==
    /\ [](/\ CountOf(poll_log, "raised") <= 6
          /\ retries = CountOf(poll_log, "raised")
          /\ pc = "wait" => CountOf(poll_log, "raised") < 6
          /\ Abandoned <=> (pc = "count" /\ CountOf(poll_log, "raised") = 6)
          /\ Abandoned => Last(poll_log) = "raised")
    /\ [][/\ cur' >= cur
          /\ Len(poll_log') > Len(poll_log) => (pc = "wait" /\ cur' = cur)]_vars

\* C4 witness: an operation abandoned on its 6th failed poll, after polls that
\* succeeded in between.
C4_Witness ==
    /\ Abandoned
    /\ CountOf(poll_log, "raised") = 6
    /\ CountOf(poll_log, "pending") > 0

\* C5 as stated: an operation whose polling was abandoned is counted as failed
\* and is not reported as OK.
C5_AbandonedCountsAsFailed ==
    \A k \in 1..Len(verdicts) :
        verdicts[k].abandoned => verdicts[k].printed = "FAILED"

Files(entries) == [k \in 1..Len(entries) |-> entries[k].file]

NotRaised(attempt) == ~attempt.raised

\* The upload loop is over.
Submitted == pc \in {"polling", "wait", "count", "done"}

\* C6: the PDFs of the directory are each submitted exactly once, in sorted
\* order, whether or not earlier submissions raised; a submission that raises
\* leaves no operation, the others leave one each, in order.
C6_EveryPdfSubmittedOnce ==
    /\ Files(attempts) = SubSeq(pdf_files, 1, Len(attempts))
    /\ Files(operations) = Files(SelectSeq(attempts, NotRaised))
    /\ Submitted =>
        /\ Files(attempts) = pdf_files
        /\ \A k \in 1..Len(listing) :
            IsPdfName(listing[k]) =>
                Cardinality({a \in 1..Len(attempts) :
                                attempts[a].file = listing[k]}) = 1
        /\ \A a \in 1..Len(attempts) :
            /\ IsPdfName(attempts[a].file)
            /\ \E k \in 1..Len(listing) : listing[k] = attempts[a].file
        /\ \A a1, a2 \in 1..Len(attempts) :
            a1 < a2 => StrLess(attempts[a1].file, attempts[a2].file)

\* C6 witness: the first of two submissions raised and the second was made.
C6_Witness ==
    /\ Submitted
    /\ Len(attempts) = 2
    /\ attempts[1].raised
    /\ ~attempts[2].raised
    /\ Len(operations) = 1

C8_NoKeyNoEffect ==
    (~TruthyStr(env_api_key) /\ pc # "start") =>
        /\ pc = "exit"
        /\ store_name = None
        /\ pdf_files = <<>>
        /\ attempts = <<>>
        /\ operations = <<>>
        /\ poll_log = <<>>
        /\ verdicts = <<>>
        /\ config_writes = 0
        /\ config_file = config_file0

\* C8 witness: a run ended for want of a credential, an empty one included.
C8_Witness ==
    /\ pc = "exit"
    /\ env_api_key = Some("")
    /\ listing # <<>>

----------------------------------------------------------------------------
(* Further properties of the chat service *)

\* C11: the model input of every handled message is the system-instruction
\* turn (role user), the acknowledgement turn (role model), the stored
\* transcript turns in stored order, then the new user message; its length is
\* the transcript length plus 3 and never exceeds 23.
C11_ModelInputLayout ==
    [][Handled =>
        LET contents == requests'[Len(requests')].contents
            h == Transcript
        IN  /\ Len(requests') = Len(requests) + 1
            /\ Len(contents) = Len(h) + 3
            /\ Len(contents) <= 23
            /\ contents[1] = [role |-> "user", text |-> SYSTEM_PROMPT]
            /\ contents[2] = [role |-> "model", text |-> ACK_TEXT]
            /\ \A k \in 1..Len(h) : contents[k + 2] = h[k]
            /\ contents[Len(contents)] =
                    [role |-> "user", text |-> last_event'.content]]_vars

\* C11 witness: a model input of 23 turns was sent for a message that differs
\* from the oldest stored user turn.
C11_Witness ==
    /\ requests # <<>>
    /\ Len(requests[Len(requests)].contents) = 23
    /\ requests[Len(requests)].contents[3].text
            # requests[Len(requests)].contents[23].text

----------------------------------------------------------------------------
(* build_custom_metadata on its own *)

\* How far before the byte limit the padding of a long abstract may end.
CutWindow == 3

\* n times the letter "a".
Pad(n) == [k \in 1..n |-> 97]

\* Characters put across the byte limit: "b", a space, and characters of 2, 3
\* and 4 bytes.
CutChars == {98, 32, 233, 2965, 128512}

\* Abstracts around the byte limit: padding, one character, a tail.
LongAbstracts ==
    { Pad(n) \o <<c>> \o tail :
        n \in (AbstractLimit - CutWindow)..AbstractLimit,
        c \in CutChars,
        tail \in {<<>>, <<32, 32>>, <<99>>} }

Row(year, go_number, department, abstract, date) ==
    ZipDict(HEADERS, <<StrCell(A_PDF), year, go_number, department, abstract, date>>)

\* Records given to the builder: rows of short cells of every kind, rows with
\* a long abstract, the empty dict, and a dict without the optional columns.
BuilderRecords ==
    { Row(y, g, d, a, t) :
        y \in {None, IntCell(0), IntCell(2021), FloatCell(20215)},
        g \in {None, StrCell(<<>>), StrCell(<<49, 50>>), IntCell(7), IntCell(0)},
        d \in {None, StrCell(<<73, 84>>)},
        a \in {None, StrCell(<<>>), StrCell(<<97, 98, 32>>), StrCell(<<32, 32>>)},
        t \in {None, StrCell(<<50, 48, 50, 49>>)} }
    \cup { Row(None, None, None, StrCell(a), None) : a \in LongAbstracts }
    \cup { <<>>, ZipDict(<<"Filename">>, <<StrCell(A_PDF)>>) }

InitBuilder ==
    /\ env_api_key = None
    /\ config_file = None
    /\ ChatIdle
    /\ IngestIdle
    /\ fn_input \in {Some(r) : r \in BuilderRecords}
    /\ fn_output = None

\* The call build_custom_metadata(record).
CallBuilder ==
    /\ fn_output = None
    /\ fn_output' = Some(build_custom_metadata(fn_input.val))
    /\ UNCHANGED <<env_api_key, config_file, chat_vars, ingest_vars, fn_input>>

SpecBuilder == InitBuilder /\ [][CallBuilder]_vars

KEY_ORDER == <<"year", "go_number", "department", "abstract", "date">>

\* The field of `key` is present in the record: Year is not None; a string
\* field is there and truthy.
FieldPresent(record, key) ==
    LET field == CASE key = "year" -> "Year"
                   [] key = "go_number" -> "GO Number"
                   [] key = "department" -> "Department"
                   [] key = "abstract" -> "Abstract"
                   [] key = "date" -> "Date"
    IN  /\ field \in DOMAIN record
        /\ record[field] # None
        /\ key # "year" =>
            /\ record[field].val.kind = "str" => record[field].val.str # <<>>
            /\ record[field].val.kind = "int" => record[field].val.n # 0
            /\ record[field].val.kind = "float" => record[field].val.tenths # 0

\* C12: the builder returns one entry for each of year, go_number, department,
\* abstract, date whose field is present, in that order, and nothing else; the
\* empty list when no field is present.
C12_EntriesInFixedOrder ==
    IsSome(fn_output) =>
        LET out == fn_output.val
            expected == SelectSeq(KEY_ORDER,
                            LAMBDA key : FieldPresent(fn_input.val, key))
        IN  /\ Len(out) = Len(expected)
            /\ \A k \in 1..Len(out) : out[k].key = expected[k]
            /\ (\A k \in 1..5 : ~FieldPresent(fn_input.val, KEY_ORDER[k]))
                    => out = <<>>

\* C12 witness: all five entries were built, the year from a float.
C12_Witness ==
    /\ IsSome(fn_output)
    /\ Len(fn_output.val) = 5
    /\ fn_input.val["Year"].val.kind = "float"
    /\ fn_output.val[1].numeric_value = 2021

IsPrefix(a, b) == Len(a) <= Len(b) /\ a = SubSeq(b, 1, Len(a))

\* C13: an emitted abstract is at most 256 bytes in UTF-8, is made of whole
\* characters of the given abstract (a prefix of it: a character cut by the
\* limit is dropped), and has no trailing whitespace.
C13_AbstractWithinLimit ==
    IsSome(fn_output) =>
        \A k \in 1..Len(fn_output.val) :
            fn_output.val[k].key = "abstract" =>
                LET out == fn_output.val[k].string_value
                    given == PyStr(fn_input.val["Abstract"].val)
                IN  /\ Len(Encode(out)) <= 256
                    /\ IsPrefix(out, given)
                    /\ out # <<>> => ~IsSpace(out[Len(out)])

\* C13 witness: the limit fell inside a character of several bytes, which was
\* dropped.
C13_Witness ==
    /\ IsSome(fn_output)
    /\ Len(fn_output.val) = 1
    /\ fn_output.val[1].key = "abstract"
    /\ Len(Encode(fn_output.val[1].string_value)) = AbstractLimit - 1
    /\ LET abstract == fn_input.val["Abstract"].val.str
       IN  /\ Len(abstract) >= AbstractLimit
           /\ abstract[AbstractLimit] > 127

\* ---------------------------------------------------------------------------
\* format_citations on its own
\* ---------------------------------------------------------------------------

\* Chunks in one response.
MaxChunks == 3

\* A chunk as the provider returns it: without retrieved context, or with a
\* context whose title is None, empty or a name.
ChunkKinds ==
    {[retrieved_context |-> None]}
        \cup {Chunk(t) : t \in {None, Some(""), Some("t1"), Some("t2")}}

ChunkLists == UNION {[1..n -> ChunkKinds] : n \in 1..MaxChunks}

\* A candidate whose grounding metadata is `grounding`.
Candidate(grounding) == <<[grounding_metadata |-> grounding]>>

\* Responses without grounding structure: the attribute is missing, None or
\* empty at each level of response.candidates[0].grounding_metadata
\* .grounding_chunks.
BareResponses ==
    {[text |-> None, candidates |-> c] : c \in {Missing, None, Some(<<>>)}}
        \cup {[text |-> None, candidates |-> Some(Candidate(g))] :
                g \in {Missing, None}}
        \cup {[text |-> None,
               candidates |-> Some(Candidate(Some([grounding_chunks |-> ch])))] :
                ch \in {Missing, None, Some(<<>>)}}

CitedResponses ==
    {[text |-> None, candidates |-> Grounded(chunks)] : chunks \in ChunkLists}

InitCitations ==
    /\ env_api_key = None
    /\ config_file = None
    /\ ChatIdle
    /\ IngestIdle
    /\ fn_input \in {Some(r) : r \in BareResponses \cup CitedResponses}
    /\ fn_output = None

CallFormatter ==
    /\ fn_output = None
    /\ fn_output' = Some(format_citations(fn_input.val))
    /\ UNCHANGED <<env_api_key, config_file, chat_vars, ingest_vars, fn_input>>

SpecCitations == InitCitations /\ [][CallFormatter]_vars

\* The response given to the formatter has a non-empty list of chunks.
HasChunks(response) ==
    /\ IsSome(response.candidates)
    /\ response.candidates.val # <<>>
    /\ IsSome(response.candidates.val[1].grounding_metadata)
    /\ IsSome(response.candidates.val[1].grounding_metadata.val.grounding_chunks)
    /\ response.candidates.val[1].grounding_metadata.val.grounding_chunks.val # <<>>

ChunksOf(response) ==
    response.candidates.val[1].grounding_metadata.val.grounding_chunks.val

\* The title a chunk with retrieved context stands for.
SourceTitle(chunk) ==
    IF chunk.retrieved_context.val.title \in {None, Some("")}
    THEN "Unknown source"
    ELSE chunk.retrieved_context.val.title.val

\* The titles of the chunks that carry retrieved context, in chunk order.
SourceTitles(chunks) ==
    LET kept == SelectSeq(chunks, LAMBDA c : IsSome(c.retrieved_context))
    IN  [k \in 1..Len(kept) |-> SourceTitle(kept[k])]

FirstIndex(seq, x) ==
    CHOOSE k \in 1..Len(seq) : seq[k] = x /\ \A j \in 1..(k - 1) : seq[j] # x

\* C14: for a response with chunks, the formatter lists every distinct title of
\* the chunks with retrieved context exactly once, in the order of first
\* occurrence, "Unknown source" standing for a missing title; chunks without
\* retrieved context add nothing, and without any title the result is empty.
C14_DistinctTitlesInFirstSeenOrder ==
    (IsSome(fn_output) /\ HasChunks(fn_input.val)) =>
        LET titles == SourceTitles(ChunksOf(fn_input.val))
            distinct == {titles[k] : k \in 1..Len(titles)}
            n == Cardinality(distinct)
            out == fn_output.val
        IN  /\ ~out.raised
            /\ Len(out.value) = 3 * n
            /\ \A k \in 1..n :
                /\ out.value[3 * k - 2] = IF k = 1 THEN SOURCES_HEADER ELSE "\n"
                /\ out.value[3 * k - 1] = "- "
                /\ out.value[3 * k] \in distinct
            /\ \A j, k \in 1..n :
                j < k => FirstIndex(titles, out.value[3 * j])
                            < FirstIndex(titles, out.value[3 * k])

\* C14 witness: a repeated title and an untitled chunk were listed once each,
\* the untitled one between the two occurrences.
C14_Witness ==
    /\ IsSome(fn_output)
    /\ HasChunks(fn_input.val)
    /\ SourceTitles(ChunksOf(fn_input.val)) = <<"t1", "Unknown source", "t1">>
    /\ fn_output.val.value
        = <<SOURCES_HEADER, "- ", "t1", "\n", "- ", "Unknown source">>

\* The response lacks grounding structure: no candidates, no grounding
\* metadata, no or empty chunks, or an attribute missing on the way.
LacksStructure(response) ==
    \/ response.candidates \in {Missing, None, Some(<<>>)}
    \/ response.candidates.val[1].grounding_metadata \in {Missing, None}
    \/ response.candidates.val[1].grounding_metadata.val.grounding_chunks
            \in {Missing, None, Some(<<>>)}

\* C15: for a response that lacks grounding structure the formatter raises
\* nothing and returns the empty string.
C15_NoStructureNoCitations ==
    (IsSome(fn_output) /\ LacksStructure(fn_input.val)) =>
        fn_output.val = Return(<<>>)

\* ---------------------------------------------------------------------------
\* The upload loop of main() over several workbooks
\* ---------------------------------------------------------------------------

\* Workbooks: SheetOne; a row for a.pdf only; a row for "b.pdf" (not "B.PDF")
\* and an empty row for a.pdf; two rows for a.pdf and one for B.PDF.
Spreadsheets ==
    { SheetOne,
      [headers |-> HEADERS, rows |-> <<FullRow>>],
      [headers |-> HEADERS, rows |-> <<YearRow(LOWER_B_PDF), EmptyRow(A_PDF)>>],
      [headers |-> HEADERS,
       rows |-> <<YearRow(A_PDF), FullRow, YearRow(UPPER_B_PDF)>>] }

InitSubmit ==
    /\ InitMain
    /\ spreadsheet \in {None} \cup {Some(sheet) : sheet \in Spreadsheets}

\* main() up to the end of the upload loop.
NextSubmit ==
    \/ CheckKey
    \/ LoadMetadata
    \/ CreateStore
    \/ ListPdfs
    \/ Submit
    \/ BeginPolling

SpecSubmit == InitSubmit /\ [][NextSubmit]_vars

\* The rows of the workbook whose Filename cell is `name`.
RowsOf(sheet, name) ==
    {k \in 1..Len(sheet.rows) :
        ZipDict(sheet.headers, sheet.rows[k])["Filename"] = StrCell(name)}

\* The record of the file `name`: its last row.
RecordOf(sheet, name) ==
    LET k == CHOOSE r \in RowsOf(sheet, name) :
                    \A q \in RowsOf(sheet, name) : q <= r
    IN  ZipDict(sheet.headers, sheet.rows[k])

\* C16: every submission carries the file name as display name; it carries
\* custom metadata exactly when the workbook has a record for the file and the
\* builder gives at least one entry for it, and then it carries the builder's
\* list; a file without a record is submitted without custom metadata.
C16_MetadataOnlyWhenBuilt ==
    \A k \in 1..Len(attempts) :
        LET config == attempts[k].config
            name == attempts[k].file
            sheet == spreadsheet.val
        IN  /\ name = pdf_files[k]
            /\ "display_name" \in DOMAIN config
            /\ config["display_name"] = Some(name)
            /\ DOMAIN config \subseteq {"display_name", "custom_metadata"}
            /\ IF RowsOf(sheet, name) = {}
               THEN "custom_metadata" \notin DOMAIN config
               ELSE LET built == build_custom_metadata(RecordOf(sheet, name))
                    IN  /\ "custom_metadata" \in DOMAIN config <=> built # <<>>
                        /\ built # <<>> =>
                                config["custom_metadata"] = Some(built)

\* C16 witness: two submissions, B.PDF without a record and without metadata,
\* a.pdf with the five entries of its row.
C16_Witness ==
    /\ Len(attempts) = 2
    /\ attempts[1].file = UPPER_B_PDF
    /\ RowsOf(spreadsheet.val, UPPER_B_PDF) = {}
    /\ DOMAIN attempts[1].config = {"display_name"}
    /\ "custom_metadata" \in DOMAIN attempts[2].config
    /\ Len(attempts[2].config["custom_metadata"].val) = 5

\* ---------------------------------------------------------------------------
\* The polling phase of main(), run to its end
\* ---------------------------------------------------------------------------

\* A run with a credential, a workbook and two PDFs.
InitPolling ==
    /\ InitMain
    /\ TruthyStr(env_api_key)
    /\ listing = <<A_PDF, UPPER_B_PDF>>
    /\ spreadsheet = Some(SheetOne)

\* The script is sequential and every step of it ends (a call returns or
\* raises, a sleep is over), so a step that can be taken is taken. An
\* operation stays unfinished for at most MaxPendingPolls successful polls:
\* after that a poll reports it done or fails.
SpecPolling == InitPolling /\ [][NextIngest]_vars /\ WF_vars(NextIngest)

\* C17: the wait loop of an operation is left only when the operation is done
\* or on the poll failure that abandons it; a poll that succeeds on an
\* unfinished operation keeps the loop waiting with its failure count as it
\* was (nothing else ends the wait); and when every operation ends up done or
\* failing its polls, the run goes from the polling phase to the written
\* configuration file.
C17_PollingEndsOnlyWhenDoneOrAbandoned ==
    /\ [][(pc = "wait" /\ pc' # "wait") =>
            /\ pc' = "count"
            /\ \/ OpDone(operation) /\ operation' = operation
               \/ /\ ~OpDone(operation)
                  /\ poll_log' = Append(poll_log, "raised")
                  /\ retries' = MaxRetries + 1]_vars
    /\ [][(pc = "wait" /\ poll_log' = Append(poll_log, "pending")) =>
            /\ pc' = "wait"
            /\ ~OpDone(operation')
            /\ retries' = retries
            /\ cur' = cur]_vars
    /\ (pc = "polling" ~> (pc = "done" /\ IsSome(config_file)))

\* C17 witness: the configuration file was written after one operation was
\* abandoned and another finished after polls that found it unfinished.
C17_Witness ==
    /\ pc = "done"
    /\ Len(verdicts) = 2
    /\ verdicts[1].abandoned
    /\ ~verdicts[2].abandoned
    /\ CountOf(poll_log, "pending") = MaxPendingPolls

\* ---------------------------------------------------------------------------
\* Further properties of the polling phase and of the transcript
\* ---------------------------------------------------------------------------

\* C18: the failure count is per operation: it is zero when the polling of an
\* operation starts, it counts the failed polls of that operation only, and an
\* operation is abandoned after 6 failed polls of its own, whatever failed
\* while earlier operations were polled.
C18_BudgetPerOperation ==
    /\ [](/\ pc \in {"wait", "count"} => retries = CountOf(poll_log, "raised")
          /\ \A k \in 1..Len(verdicts) :
                verdicts[k].abandoned => verdicts[k].raised = MaxRetries + 1)
    /\ [][cur' # cur => (cur' = cur + 1 /\ retries' = 0 /\ pc' = "wait")]_vars

\* C18 witness: the first operation finished after 5 failed polls, and the
\* second was abandoned only after 6 failed polls of its own.
C18_Witness ==
    /\ Len(verdicts) = 2
    /\ ~verdicts[1].abandoned
    /\ verdicts[1].raised = MaxRetries
    /\ verdicts[2].abandoned
    /\ verdicts[2].raised = MaxRetries + 1

\* C19: in an initialized session the stored transcript has even length and
\* its turns are user, model, user, model, ..., also after the cap dropped turns.
C19_TurnsAlternate ==
    SessionInitialized(user_session) =>
        LET h == Transcript IN
        /\ Len(h) % 2 = 0
        /\ \A k \in 1..Len(h) :
            h[k].role = IF k % 2 = 1 THEN "user" ELSE "model"

\* C19 witness: the cap has dropped turns and the transcript still starts with
\* a user turn and ends with a model turn.
C19_Witness ==
    /\ SessionInitialized(user_session)
    /\ Len(full) > HistoryCap
    /\ Len(Transcript) = HistoryCap
    /\ Transcript[1].role = "user"
    /\ Transcript[HistoryCap].role = "model"

\* The submissions that raised.
RaisedAttempts == {k \in 1..Len(attempts) : attempts[k].raised}

\* The polling phase is over.
PollingOver == pc = "done" \/ (pc = "polling" /\ cur = Len(operations))

\* C20: during the polling phase the two counts add up to the operations
\* counted so far, each of them once and in order; when the phase is over
\* these are all the submitted operations, as many as there are PDFs less the
\* submissions that raised.
C20_EveryOperationCountedOnce ==
    /\ pc \in {"polling", "wait", "count", "done"} =>
        /\ completed + failed = Len(verdicts)
        /\ Files(verdicts) = SubSeq(Files(operations), 1, Len(verdicts))
        /\ completed = Cardinality({k \in 1..Len(verdicts) :
                                        verdicts[k].printed = "OK"})
    /\ PollingOver =>
        /\ completed + failed = Len(operations)
        /\ Len(operations) = Len(pdf_files) - Cardinality(RaisedAttempts)
        /\ \A k \in RaisedAttempts :
            \A v \in 1..Len(verdicts) : verdicts[v].file # attempts[k].file

\* C20 witness: of two PDFs one submission raised; the other operation was
\* abandoned and counted, and the configuration file was written.
C20_Witness ==
    /\ pc = "done"
    /\ Len(pdf_files) = 2
    /\ Cardinality(RaisedAttempts) = 1
    /\ completed + failed = 1
    /\ verdicts[1].abandoned

====
